---- MODULE Spec2Model ----
(***************************************************************************)
(* oslog: wrappers that forward a runtime string to Apple's unified        *)
(* logging (os_log) and signpost (os_signpost) entry points.               *)
(*                                                                         *)
(* The sink (os_signpost_enabled, the compiler's os_log format builtins,   *)
(* _os_signpost_emit_with_name_impl, os_log_with_type) is instrumented:    *)
(* every call into it is appended to a history variable, and the process's *)
(* standard output is a string the wrappers append to.                     *)
(***************************************************************************)
EXTENDS Integers, Sequences, FiniteSets, TLC

VARIABLES
    has_10_14,      \* OS_LOG_TARGET_HAS_10_14_FEATURES of the build
    emit_impl,      \* what _os_signpost_emit_with_name_impl resolved to
    enabled,        \* the sink's enabled flag of each channel
    enabled_reads,  \* number of os_signpost_enabled calls made
    sizing,         \* calls of __builtin_os_log_format_buffer_size
    encoding,       \* calls of __builtin_os_log_format
    emitted,        \* records handed to _os_signpost_emit_with_name_impl
    logged,         \* calls of the os_log entry points
    stdout,         \* bytes written to the standard output
    fault,          \* a call went through a null function pointer
    ret,            \* value returned by the last call
    call,           \* the last call made and what it saw
    ncalls,         \* number of calls made
    pc,             \* per thread: position in the emitter it runs
    frame,          \* per thread: arguments and locals of the running call
    fmt_buf         \* per buffer: contents of _os_fmt_buf

config  == <<has_10_14, emit_impl>>
sink    == <<enabled_reads, sizing, encoding, emitted, fault>>
threads == <<pc, frame, fmt_buf>>
vars    == <<has_10_14, emit_impl, enabled, enabled_reads, sizing, encoding,
             emitted, logged, stdout, fault, ret, call, ncalls, pc, frame,
             fmt_buf>>

(***************************************************************************)
(* Bounds of the model.                                                    *)
(***************************************************************************)
MaxCalls     == 1   \* calls made in one behaviour of Spec
MaxSpanCalls == 2   \* calls made in one behaviour of SpecSpan
MaxLogCalls  == 2   \* calls made in one behaviour of SpecLog
MaxSpId      == 1   \* trace ids 0..MaxSpId, and OS_SIGNPOST_ID_INVALID

(***************************************************************************)
(* Values of the platform headers the code names.                          *)
(***************************************************************************)
NULL                       == "NULL"
OS_SIGNPOST_ID_NULL        == 0
OS_SIGNPOST_ID_INVALID     == -1     \* (os_signpost_id_t)~0
OS_SIGNPOST_EVENT          == "OS_SIGNPOST_EVENT"
OS_SIGNPOST_INTERVAL_BEGIN == "OS_SIGNPOST_INTERVAL_BEGIN"
OS_SIGNPOST_INTERVAL_END   == "OS_SIGNPOST_INTERVAL_END"
OS_LOG_DEFAULT             == "OS_LOG_DEFAULT"
OS_LOG_TYPE_DEFAULT        == "OS_LOG_TYPE_DEFAULT"
OS_LOG_TYPE_INFO           == "OS_LOG_TYPE_INFO"
OS_LOG_TYPE_DEBUG          == "OS_LOG_TYPE_DEBUG"
OS_LOG_TYPE_ERROR          == "OS_LOG_TYPE_ERROR"
OS_LOG_TYPE_FAULT          == "OS_LOG_TYPE_FAULT"
dso_handle                 == "__dso_handle"

(***************************************************************************)
(* Inputs the callers draw from.                                           *)
(***************************************************************************)
Channels      == {OS_LOG_DEFAULT, "log1"}
SpIds         == (0..MaxSpId) \cup {OS_SIGNPOST_ID_INVALID}
SignpostTypes == {OS_SIGNPOST_EVENT, OS_SIGNPOST_INTERVAL_BEGIN,
                  OS_SIGNPOST_INTERVAL_END}
LogTypes      == {OS_LOG_TYPE_DEFAULT, OS_LOG_TYPE_INFO, OS_LOG_TYPE_DEBUG,
                  OS_LOG_TYPE_ERROR, OS_LOG_TYPE_FAULT}
Names         == {"n1", "n2"}
Formats       == {"", "f"}
Messages      == {"m1", "m2"}
VaArgs        == {<< >>, <<"m1">>}

(***************************************************************************)
(* The compiler's os_log builtins, for the one directive the wrappers use  *)
(* ("%s" with a const char* argument).  The buffer holds a summary byte,   *)
(* the argument count, and per argument a descriptor byte, a size byte and *)
(* the argument itself: for a string, the pointer, not the characters.     *)
(***************************************************************************)
SizeofPtr == 8

os_log_format_buffer_size(fmt, arg) == 2 + (2 + SizeofPtr)

os_log_format(fmt, arg) == <<2, 1, 32, SizeofPtr, [ptr |-> arg]>>

\* sizeof(_os_fmt_buf) of a pointer instead of the array
sizeof_decayed(n) == SizeofPtr

\* (uint32_t)sizeof(_os_fmt_buf), an array of n uint8_t
sizeof_os_fmt_buf(n) == n

(***************************************************************************)
(* The record the emit entry point receives.                               *)
(***************************************************************************)
EmitRecord(log, type, spid, name, fmt, buf, len) ==
    [dso |-> dso_handle, log |-> log, type |-> type, spid |-> spid,
     name |-> name, fmt |-> fmt, buf |-> buf, len |-> len]

\* fun(&__dso_handle, log, type, spid, name, fmt, buf, sizeof(_os_fmt_buf))
EmitCall(fun, log, type, spid, name, fmt, buf, size) ==
    IF fun = NULL
    THEN /\ fault' = TRUE
         /\ emitted' = emitted
    ELSE /\ fault' = fault
         /\ emitted' = Append(emitted, EmitRecord(log, type, spid, name, fmt,
                                         buf, sizeof_os_fmt_buf(size)))

MOD_OS_LOG_CALL_WITH_FORMAT_NAME(fun, log, type, spid, name, fmt, arg) ==
    LET size == os_log_format_buffer_size(fmt, arg)
        buf  == os_log_format(fmt, arg)
    IN  /\ sizing' = Append(sizing, [fmt |-> fmt, arg |-> arg, ret |-> size])
        /\ encoding' = Append(encoding, [fmt |-> fmt, arg |-> arg, buf |-> buf])
        /\ EmitCall(fun, log, type, spid, name, fmt, buf, size)

\* the guard without its test of OS_SIGNPOST_ID_INVALID
SpidNotNull(spid) == spid # OS_SIGNPOST_ID_NULL

\* the first two conjuncts of the guard
SpidOk(spid) ==
    spid # OS_SIGNPOST_ID_NULL /\ spid # OS_SIGNPOST_ID_INVALID

\* the guard without its third conjunct
os_signpost_always_enabled(log) == TRUE

\* the third conjunct of the guard, reached only when the first two hold
os_signpost_enabled(log) == enabled[log]

_mod_os_signpost_emit_with_type(emitfn, log, type, spid, name, fmt, arg) ==
    IF SpidOk(spid)
    THEN /\ enabled_reads' = enabled_reads + 1
         /\ IF os_signpost_enabled(log)
            THEN MOD_OS_LOG_CALL_WITH_FORMAT_NAME(emitfn, log, type, spid,
                                                  name, fmt, arg)
            ELSE UNCHANGED <<sizing, encoding, emitted, fault>>
    ELSE UNCHANGED sink

\* a build that never tests the symbol
ImplNeverChecked(has) == FALSE

\* the #else branch tests the weakly linked symbol, the #if branch does not
ImplChecked(has) == ~has

mod_os_signpost_emit_with_type(log, type, spid, name, fmt, arg) ==
    IF ImplChecked(has_10_14) /\ emit_impl = NULL
    THEN UNCHANGED sink
    ELSE _mod_os_signpost_emit_with_type(emit_impl, log, type, spid, name,
                                         fmt, arg)

(***************************************************************************)
(* The harness: what the last call was and what the sink's flag was then.  *)
(***************************************************************************)
NoCall ==
    [op |-> "none", log |-> OS_LOG_DEFAULT, type |-> "", spid |-> 0,
     name |-> "", format |-> "", message |-> "", va |-> << >>,
     en |-> FALSE, at |-> 0]

Called(op, log, type, spid, name, format, message, va) ==
    /\ call' = [op |-> op, log |-> log, type |-> type, spid |-> spid,
                name |-> name, format |-> format, message |-> message,
                va |-> va, en |-> enabled[log], at |-> Len(emitted)]
    /\ ncalls' = ncalls + 1

(***************************************************************************)
(* src/src/os_signpost_wrapper.c                                           *)
(***************************************************************************)
\* an emitter that takes its message from the variadic arguments
va_reads_first_arg(log, spty, spid, name, va) ==
    /\ mod_os_signpost_emit_with_type(log, spty, spid, name, "%s",
                                      IF va = << >> THEN "hello" ELSE va[1])
    /\ Called("va_os_signpost_event_emit_with_type", log, spty, spid, name,
              "", "", va)
    /\ UNCHANGED <<config, enabled, logged, stdout, ret, threads>>

va_os_signpost_event_emit_with_type(log, spty, spid, name, va) ==
    /\ mod_os_signpost_emit_with_type(log, spty, spid, name, "%s", "hello")
    /\ Called("va_os_signpost_event_emit_with_type", log, spty, spid, name,
              "", "", va)
    /\ UNCHANGED <<config, enabled, logged, stdout, ret, threads>>

printf_s(out, s) == out \o s

wrapped_os_signpost(op, type, log, spid, name, format, message) ==
    /\ stdout' = printf_s(stdout, format)
    /\ mod_os_signpost_emit_with_type(log, type, spid, name, "%s", message)
    /\ Called(op, log, type, spid, name, format, message, << >>)
    /\ UNCHANGED <<config, enabled, logged, ret, threads>>

wrapped_os_signpost_event_emit(log, spid, name, format, message) ==
    wrapped_os_signpost("wrapped_os_signpost_event_emit", OS_SIGNPOST_EVENT,
                        log, spid, name, format, message)

\* wrapped_os_signpost_interval_begin with the type of the event emitter
interval_begin_as_event(log, spid, name, format, message) ==
    wrapped_os_signpost("wrapped_os_signpost_interval_begin",
                        OS_SIGNPOST_EVENT,
                        log, spid, name, format, message)

wrapped_os_signpost_interval_begin(log, spid, name, format, message) ==
    wrapped_os_signpost("wrapped_os_signpost_interval_begin",
                        OS_SIGNPOST_INTERVAL_BEGIN,
                        log, spid, name, format, message)

\* wrapped_os_signpost_interval_end with the type of interval_begin
interval_end_as_begin(log, spid, name, format, message) ==
    wrapped_os_signpost("wrapped_os_signpost_interval_end",
                        OS_SIGNPOST_INTERVAL_BEGIN,
                        log, spid, name, format, message)

wrapped_os_signpost_interval_end(log, spid, name, format, message) ==
    wrapped_os_signpost("wrapped_os_signpost_interval_end",
                        OS_SIGNPOST_INTERVAL_END,
                        log, spid, name, format, message)

(***************************************************************************)
(* The sink's side: tracing of a channel is switched on or off.            *)
(***************************************************************************)
SinkSetEnabled(log, b) ==
    /\ enabled[log] # b
    /\ enabled' = [enabled EXCEPT ![log] = b]
    /\ UNCHANGED <<config, sink, logged, stdout, ret, call, ncalls, threads>>

Threads == {"t1", "t2"}

NoFrame ==
    [op |-> "none", log |-> OS_LOG_DEFAULT, type |-> "", spid |-> 0,
     name |-> "", format |-> "", message |-> "", va |-> << >>,
     seen |-> FALSE, size |-> 0]

Init ==
    /\ has_10_14 \in BOOLEAN
    /\ emit_impl \in {NULL, "_os_signpost_emit_with_name_impl"}
    \* with the 10.14 features the symbol is a strong import: the image does
    \* not load where it is missing
    /\ has_10_14 => emit_impl # NULL
    /\ enabled \in [Channels -> BOOLEAN]
    /\ enabled_reads = 0
    /\ sizing = << >>
    /\ encoding = << >>
    /\ emitted = << >>
    /\ logged = << >>
    /\ stdout = ""
    /\ fault = FALSE
    /\ ret = NULL
    /\ call = NoCall
    /\ ncalls = 0
    /\ pc = [t \in Threads |-> "idle"]
    /\ frame = [t \in Threads |-> NoFrame]
    /\ fmt_buf = [t \in Threads |-> << >>]

\* the four emitters, their arguments drawn from the given sets
Emitters(Ns, Fs, Ms, Vs) ==
    \/ \E log \in Channels, spty \in SignpostTypes, spid \in SpIds,
          name \in Ns, va \in Vs :
          va_os_signpost_event_emit_with_type(log, spty, spid, name, va)
    \/ \E log \in Channels, spid \in SpIds, name \in Ns,
          format \in Fs, message \in Ms :
          wrapped_os_signpost_event_emit(log, spid, name, format, message)
    \/ \E log \in Channels, spid \in SpIds, name \in Ns,
          format \in Fs, message \in Ms :
          wrapped_os_signpost_interval_begin(log, spid, name, format, message)
    \/ \E log \in Channels, spid \in SpIds, name \in Ns,
          format \in Fs, message \in Ms :
          wrapped_os_signpost_interval_end(log, spid, name, format, message)

SinkStep == \E log \in Channels, b \in BOOLEAN : SinkSetEnabled(log, b)

(***************************************************************************)
(* Spec: single calls of the emitters over all their arguments.            *)
(***************************************************************************)
Next ==
    \/ ncalls < MaxCalls /\ Emitters(Names, Formats, Messages, VaArgs)
    \/ SinkStep

Spec == Init /\ [][Next]_vars

(***************************************************************************)
(* SpecSpan: sequences of calls of the emitters at one call site.          *)
(***************************************************************************)
NextSpan ==
    \/ ncalls < MaxSpanCalls /\ Emitters({"n1"}, {"f"}, {"m1"}, {<< >>})
    \/ SinkStep

SpecSpan == Init /\ [][NextSpan]_vars

(***************************************************************************)
(* src/wrapper.c: the os_log wrappers.  Each os_log macro of the platform  *)
(* header is one entry point of the sink; a call of it is appended to      *)
(* logged with the level it logs at.                                       *)
(***************************************************************************)
LogCall(entry, log, type, fmt, arg) ==
    logged' = Append(logged, [entry |-> entry, log |-> log, type |-> type,
                              fmt |-> fmt, arg |-> arg])

os_log_with_type(log, type, fmt, arg) ==
    LogCall("os_log_with_type", log, type, fmt, arg)
os_log_debug(log, fmt, arg) ==
    LogCall("os_log_debug", log, OS_LOG_TYPE_DEBUG, fmt, arg)
os_log_info(log, fmt, arg) ==
    LogCall("os_log_info", log, OS_LOG_TYPE_INFO, fmt, arg)
os_log(log, fmt, arg) ==
    LogCall("os_log", log, OS_LOG_TYPE_DEFAULT, fmt, arg)
os_log_error(log, fmt, arg) ==
    LogCall("os_log_error", log, OS_LOG_TYPE_ERROR, fmt, arg)
os_log_fault(log, fmt, arg) ==
    LogCall("os_log_fault", log, OS_LOG_TYPE_FAULT, fmt, arg)

LogWrapperDone(op, log, type, message) ==
    /\ Called(op, log, type, 0, "", "", message, << >>)
    /\ UNCHANGED <<config, enabled, sink, stdout, ret, threads>>

wrapped_get_default_log ==
    /\ ret' = OS_LOG_DEFAULT
    /\ Called("wrapped_get_default_log", OS_LOG_DEFAULT, "", 0, "", "", "",
              << >>)
    /\ UNCHANGED <<config, enabled, sink, logged, stdout, threads>>

wrapped_os_log_with_type(log, type, message) ==
    /\ os_log_with_type(log, type, "%{public}s", message)
    /\ LogWrapperDone("wrapped_os_log_with_type", log, type, message)

wrapped_os_log_debug(log, message) ==
    /\ os_log_debug(log, "%{public}s", message)
    /\ LogWrapperDone("wrapped_os_log_debug", log, "", message)

\* wrapped_os_log_info with the body of wrapped_os_log_debug
wrapped_os_log_info_as_debug(log, message) ==
    /\ os_log_debug(log, "%{public}s", message)
    /\ LogWrapperDone("wrapped_os_log_info", log, "", message)

wrapped_os_log_info(log, message) ==
    /\ os_log_info(log, "%{public}s", message)
    /\ LogWrapperDone("wrapped_os_log_info", log, "", message)

wrapped_os_log_default(log, message) ==
    /\ os_log(log, "%{public}s", message)
    /\ LogWrapperDone("wrapped_os_log_default", log, "", message)

wrapped_os_log_error(log, message) ==
    /\ os_log_error(log, "%{public}s", message)
    /\ LogWrapperDone("wrapped_os_log_error", log, "", message)

wrapped_os_log_fault(log, message) ==
    /\ os_log_fault(log, "%{public}s", message)
    /\ LogWrapperDone("wrapped_os_log_fault", log, "", message)

(***************************************************************************)
(* SpecLog: sequences of calls of the os_log wrappers.                     *)
(***************************************************************************)
LogWrappers ==
    \/ wrapped_get_default_log
    \/ \E log \in Channels, type \in LogTypes, message \in Messages :
          wrapped_os_log_with_type(log, type, message)
    \/ \E log \in Channels, message \in Messages :
          wrapped_os_log_debug(log, message)
    \/ \E log \in Channels, message \in Messages :
          wrapped_os_log_info(log, message)
    \/ \E log \in Channels, message \in Messages :
          wrapped_os_log_default(log, message)
    \/ \E log \in Channels, message \in Messages :
          wrapped_os_log_error(log, message)
    \/ \E log \in Channels, message \in Messages :
          wrapped_os_log_fault(log, message)

NextLog == ncalls < MaxLogCalls /\ LogWrappers

SpecLog == Init /\ [][NextLog]_vars

(***************************************************************************)
(* SpecThreads: every thread makes one call of an emitter, and the calls   *)
(* interleave statement by statement.  frame[t] holds the arguments and    *)
(* the locals of thread t's call, fmt_buf[t] the automatic array           *)
(* _os_fmt_buf of that call, which keeps whatever the stack held until     *)
(* __builtin_os_log_format fills it.                                       *)
(***************************************************************************)
Enter(t, op, type, log, spid, name, format, arg, va, first) ==
    /\ pc[t] = "idle"
    /\ frame' = [frame EXCEPT ![t] =
                   [op |-> op, log |-> log, type |-> type, spid |-> spid,
                    name |-> name, format |-> format, message |-> arg,
                    va |-> va, seen |-> FALSE, size |-> 0]]
    /\ pc' = [pc EXCEPT ![t] = first]
    /\ UNCHANGED <<config, enabled, sink, logged, stdout, ret, call, ncalls,
                   fmt_buf>>

Enter_va(t, log, spty, spid, name, va) ==
    Enter(t, "va_os_signpost_event_emit_with_type", spty, log, spid, name,
          "", "hello", va, "check")

Enter_wrapped(t, type, log, spid, name, format, message) ==
    Enter(t, CASE type = OS_SIGNPOST_EVENT -> "wrapped_os_signpost_event_emit"
               [] type = OS_SIGNPOST_INTERVAL_BEGIN ->
                      "wrapped_os_signpost_interval_begin"
               [] type = OS_SIGNPOST_INTERVAL_END ->
                      "wrapped_os_signpost_interval_end",
          type, log, spid, name, format, message, << >>, "printf")

Goto(t, label) == pc' = [pc EXCEPT ![t] = label]

PrintfStep(t) ==
    /\ pc[t] = "printf"
    /\ stdout' = printf_s(stdout, frame[t].format)
    /\ Goto(t, "check")
    /\ UNCHANGED <<config, enabled, sink, logged, ret, call, ncalls, frame,
                   fmt_buf>>

CheckStep(t) ==
    /\ pc[t] = "check"
    /\ IF ImplChecked(has_10_14) /\ emit_impl = NULL
       THEN Goto(t, "done")
       ELSE Goto(t, "guard")
    /\ UNCHANGED <<config, enabled, sink, logged, stdout, ret, call, ncalls,
                   frame, fmt_buf>>

GuardStep(t) ==
    /\ pc[t] = "guard"
    /\ IF SpidOk(frame[t].spid)
       THEN /\ enabled_reads' = enabled_reads + 1
            /\ frame' = [frame EXCEPT
                           ![t].seen = os_signpost_enabled(frame[t].log)]
            /\ IF os_signpost_enabled(frame[t].log)
               THEN Goto(t, "size")
               ELSE Goto(t, "done")
       ELSE /\ Goto(t, "done")
            /\ UNCHANGED <<enabled_reads, frame>>
    /\ UNCHANGED <<config, enabled, sizing, encoding, emitted, fault, logged,
                   stdout, ret, call, ncalls, fmt_buf>>

SizeStep(t) ==
    /\ pc[t] = "size"
    /\ LET n == os_log_format_buffer_size("%s", frame[t].message)
       IN  /\ sizing' = Append(sizing, [fmt |-> "%s",
                                         arg |-> frame[t].message, ret |-> n])
           /\ frame' = [frame EXCEPT ![t].size = n]
    /\ Goto(t, "format")
    /\ UNCHANGED <<config, enabled, enabled_reads, encoding, emitted, fault,
                   logged, stdout, ret, call, ncalls, fmt_buf>>

FormatStep(t) ==
    /\ pc[t] = "format"
    /\ LET buf == os_log_format("%s", frame[t].message)
       IN  /\ encoding' = Append(encoding, [fmt |-> "%s",
                                   arg |-> frame[t].message, buf |-> buf])
           /\ fmt_buf' = [fmt_buf EXCEPT ![t] = buf]
    /\ Goto(t, "emit")
    /\ UNCHANGED <<config, enabled, enabled_reads, sizing, emitted, fault,
                   logged, stdout, ret, call, ncalls, frame>>

EmitStep(t) ==
    /\ pc[t] = "emit"
    /\ EmitCall(emit_impl, frame[t].log, frame[t].type, frame[t].spid,
                frame[t].name, "%s", fmt_buf[t], frame[t].size)
    /\ Goto(t, "done")
    /\ UNCHANGED <<config, enabled, enabled_reads, sizing, encoding, logged,
                   stdout, ret, call, ncalls, frame, fmt_buf>>

ThreadStep(t) ==
    \/ \E log \in Channels, spty \in SignpostTypes, spid \in SpIds :
          Enter_va(t, log, spty, spid, "n1", << >>)
    \/ \E type \in SignpostTypes, log \in Channels, spid \in SpIds,
          message \in Messages :
          Enter_wrapped(t, type, log, spid, "n1", "f", message)
    \/ PrintfStep(t)
    \/ CheckStep(t)
    \/ GuardStep(t)
    \/ SizeStep(t)
    \/ FormatStep(t)
    \/ EmitStep(t)

NextThreads ==
    \/ \E t \in Threads : ThreadStep(t)
    \/ SinkStep

SpecThreads == Init /\ [][NextThreads]_vars

(***************************************************************************)
(* Properties.                                                             *)
(***************************************************************************)
SignpostOps == {"wrapped_os_signpost_event_emit",
                "wrapped_os_signpost_interval_begin",
                "wrapped_os_signpost_interval_end"}
VaOp        == "va_os_signpost_event_emit_with_type"
EmitterOps  == SignpostOps \cup {VaOp}
Sentinels   == {OS_SIGNPOST_ID_NULL, OS_SIGNPOST_ID_INVALID}

\* a step that is a call of a wrapper; call' then describes it
IsCall == ncalls' = ncalls + 1

\* the event kind each operation stands for
KindOf(op) ==
    CASE op = "wrapped_os_signpost_event_emit"     -> OS_SIGNPOST_EVENT
      [] op = "wrapped_os_signpost_interval_begin" -> OS_SIGNPOST_INTERVAL_BEGIN
      [] op = "wrapped_os_signpost_interval_end"   -> OS_SIGNPOST_INTERVAL_END

\* the reader's side of the buffer: the argument of its single directive
os_log_decode(buf) == buf[Len(buf)].ptr

Last(q) == q[Len(q)]

\* q2 is q1 with exactly one more element at its end
OneMore(q1, q2) == Len(q2) = Len(q1) + 1 /\ SubSeq(q2, 1, Len(q1)) = q1

\* C1: a call of one of the three signpost emitters on a channel whose
\* enabled predicate is false makes no call of the sizing primitive, of the
\* encode primitive or of the emit entry point.
C1_DisabledNoSinkCalls ==
    [][(IsCall /\ call'.op \in SignpostOps /\ ~call'.en)
         => /\ sizing' = sizing
            /\ encoding' = encoding
            /\ emitted' = emitted
            /\ fault' = fault]_vars

C1_Witness ==
    /\ call.op \in SignpostOps
    /\ ~call.en
    /\ call.spid \notin Sentinels
    /\ emit_impl # NULL
    /\ call.message = "m2"

\* C2: a call of an emitter whose trace id is OS_SIGNPOST_ID_NULL or
\* OS_SIGNPOST_ID_INVALID hands no record to the emit entry point, whatever
\* the channel's state, the event kind, the name and the message.
C2_SentinelNoEmission ==
    [][(IsCall /\ call'.op \in EmitterOps /\ call'.spid \in Sentinels)
         => emitted' = emitted]_vars

C2_Witness ==
    /\ call.op \in EmitterOps
    /\ call.spid = OS_SIGNPOST_ID_INVALID
    /\ call.en
    /\ emit_impl # NULL

\* C3: on an enabled channel, with a trace id that is no sentinel and the
\* emit entry point available, a call of a signpost emitter hands exactly one
\* record to the sink, of the kind of the operation and with the caller's
\* channel, trace id, name and message.
C3_OneRecordPerCall ==
    [][(/\ IsCall
        /\ call'.op \in SignpostOps
        /\ call'.en
        /\ call'.spid \notin Sentinels
        /\ emit_impl # NULL)
         => /\ OneMore(emitted, emitted')
            /\ Last(emitted').type = KindOf(call'.op)
            /\ Last(emitted').log = call'.log
            /\ Last(emitted').spid = call'.spid
            /\ Last(emitted').name = call'.name
            /\ os_log_decode(Last(emitted').buf) = call'.message]_vars

C3_Witness ==
    /\ call.op = "wrapped_os_signpost_interval_end"
    /\ call.en
    /\ call.spid \notin Sentinels
    /\ emit_impl # NULL
    /\ Len(emitted) = call.at + 1
    /\ Last(emitted).type = OS_SIGNPOST_INTERVAL_END

\* C4: when the guard of a signpost emitter fails (channel disabled, or
\* trace id a sentinel) the call is a silent no-op: it calls no sink
\* primitive and writes nothing to any output stream, so what can be
\* observed after the call is what could be observed before it.
C4_SilentNoOp ==
    [][(/\ IsCall
        /\ call'.op \in SignpostOps
        /\ (~call'.en \/ call'.spid \in Sentinels))
         => /\ <<sizing, encoding, emitted, fault>>'
                  = <<sizing, encoding, emitted, fault>>
            /\ stdout' = stdout
            /\ logged' = logged
            /\ enabled' = enabled]_vars

\* C5: in every emission the length handed to the emit entry point is the
\* value the sizing primitive returned for "%s" and the call's message, and
\* the buffer handed over is the one the encode primitive filled from the
\* same specifier and message.
C5_LengthIsSizingResult ==
    /\ Len(sizing) = Len(emitted)
    /\ Len(encoding) = Len(emitted)
    /\ \A i \in 1..Len(emitted) :
          /\ emitted[i].fmt = "%s"
          /\ sizing[i].fmt = "%s"
          /\ encoding[i].fmt = "%s"
          /\ sizing[i].arg = encoding[i].arg
          /\ emitted[i].len = sizing[i].ret
          /\ emitted[i].buf = encoding[i].buf
    /\ (call.op \in EmitterOps /\ Len(emitted) > call.at)
          => Last(sizing).arg =
                IF call.op = VaOp THEN "hello" ELSE call.message

C5_Witness ==
    /\ call.op \in SignpostOps
    /\ Len(emitted) > call.at
    /\ Last(emitted).len = Last(sizing).ret
    /\ Last(sizing).arg = "m2"

\* C6: when _os_signpost_emit_with_name_impl resolved to a null pointer, no
\* call of an emitter emits or calls through the null pointer, whatever the
\* channel's state and the trace id; the null test comes first, so the
\* enabled predicate is not even asked.
C6_NullImplNoEmission ==
    emit_impl = NULL
      => /\ emitted = << >>
         /\ ~fault
         /\ enabled_reads = 0
         /\ sizing = << >>
         /\ encoding = << >>

C6_Witness ==
    /\ emit_impl = NULL
    /\ call.op \in EmitterOps
    /\ call.en
    /\ call.spid \notin Sentinels

\* C7: on an enabled channel and with a trace id t that is no sentinel,
\* interval_begin(t, name) followed by interval_end(t, name) makes the sink
\* see exactly two records for t, a BEGIN and then an END, with no POINT
\* EVENT between them: nothing is added, dropped or reordered.
C7_IntervalCorrelation ==
    [][(/\ call.op = "wrapped_os_signpost_interval_begin"
        /\ call.en
        /\ call.spid \notin Sentinels
        /\ emit_impl # NULL
        /\ IsCall
        /\ call'.op = "wrapped_os_signpost_interval_end"
        /\ call'.en
        /\ call'.log = call.log
        /\ call'.spid = call.spid
        /\ call'.name = call.name)
         => /\ Len(emitted') = call.at + 2
            /\ SubSeq(emitted', 1, call.at) = SubSeq(emitted, 1, call.at)
            /\ \A i \in {call.at + 1, call.at + 2} :
                  /\ emitted'[i].spid = call.spid
                  /\ emitted'[i].name = call.name
                  /\ emitted'[i].log = call.log
            /\ emitted'[call.at + 1].type = OS_SIGNPOST_INTERVAL_BEGIN
            /\ emitted'[call.at + 2].type = OS_SIGNPOST_INTERVAL_END]_vars

C7_Witness ==
    /\ call.op = "wrapped_os_signpost_interval_end"
    /\ call.en
    /\ call.at >= 1
    /\ Len(emitted) = call.at + 1
    /\ emitted[call.at].type = OS_SIGNPOST_INTERVAL_BEGIN
    /\ emitted[call.at].spid = call.spid
    /\ emitted[call.at + 1].type = OS_SIGNPOST_INTERVAL_END
    /\ emitted[call.at + 1].spid = call.spid

\* the sink's entry point and level each os_log wrapper stands for
EntryOf(op) ==
    CASE op = "wrapped_os_log_with_type" -> "os_log_with_type"
      [] op = "wrapped_os_log_debug"     -> "os_log_debug"
      [] op = "wrapped_os_log_info"      -> "os_log_info"
      [] op = "wrapped_os_log_default"   -> "os_log"
      [] op = "wrapped_os_log_error"     -> "os_log_error"
      [] op = "wrapped_os_log_fault"     -> "os_log_fault"

LevelOf(c) ==
    CASE c.op = "wrapped_os_log_with_type" -> c.type
      [] c.op = "wrapped_os_log_debug"     -> OS_LOG_TYPE_DEBUG
      [] c.op = "wrapped_os_log_info"      -> OS_LOG_TYPE_INFO
      [] c.op = "wrapped_os_log_default"   -> OS_LOG_TYPE_DEFAULT
      [] c.op = "wrapped_os_log_error"     -> OS_LOG_TYPE_ERROR
      [] c.op = "wrapped_os_log_fault"     -> OS_LOG_TYPE_FAULT

\* C8: each os_log wrapper makes exactly one call of the sink's logging
\* entry point of its level (for with_type, of the caller's type), with the
\* caller's channel and the caller's message as the whole payload under one
\* fixed format specifier; wrapped_get_default_log returns the default
\* channel and logs nothing.
C8_LogPassThrough ==
    [][IsCall
         => IF call'.op = "wrapped_get_default_log"
            THEN ret' = OS_LOG_DEFAULT /\ logged' = logged
            ELSE /\ OneMore(logged, logged')
                 /\ Last(logged') = [entry |-> EntryOf(call'.op),
                                     log   |-> call'.log,
                                     type  |-> LevelOf(call'),
                                     fmt   |-> "%{public}s",
                                     arg   |-> call'.message]]_vars

C8_Witness ==
    /\ call.op = "wrapped_os_log_info"
    /\ ret = OS_LOG_DEFAULT
    /\ logged # << >>
    /\ Last(logged).type = OS_LOG_TYPE_INFO
    /\ Last(logged).arg = "m2"

\* the records emitted, and the records the calls that returned account for
Occurrences(q, r) == Cardinality({i \in 1..Len(q) : q[i] = r})

RecordOf(f) ==
    EmitRecord(f.log, f.type, f.spid, f.name, "%s",
               os_log_format("%s", f.message),
               os_log_format_buffer_size("%s", f.message))

Emits(f) == emit_impl # NULL /\ f.spid \notin Sentinels /\ f.seen

\* once every call returned, the records handed to the sink are, as a
\* multiset, those of the calls made one after another
RecordsAsSequential ==
    (\A t \in Threads : pc[t] = "done")
      => /\ Len(emitted) = Cardinality({t \in Threads : Emits(frame[t])})
         /\ \A t \in Threads :
               Emits(frame[t])
                 => Occurrences(emitted, RecordOf(frame[t])) =
                      Cardinality({u \in Threads :
                                     /\ Emits(frame[u])
                                     /\ RecordOf(frame[u]) = RecordOf(frame[t])})

\* C9: emission calls are stateless and thread-safe by construction: a step
\* of a call reads its arguments and the channel's enabled flag and writes
\* nothing but its own stack-local frame and buffer (and the records it
\* hands to the sink), so the records of interleaved calls are those of the
\* calls made one after another, and no input is modified.
C9_StackLocalOnly ==
    [][\A t \in Threads :
          pc'[t] # pc[t]
            => /\ stdout' = stdout
               /\ enabled' = enabled
               /\ \A u \in Threads \ {t} :
                     frame'[u] = frame[u] /\ fmt_buf'[u] = fmt_buf[u]
               /\ RecordsAsSequential']_vars

\* C10: the variadic emitter forwards the caller's channel, kind, trace id
\* and name under the same guard as the other emitters, and the message of
\* its record is always "hello": the variadic arguments play no part.
C10_VaMessageIsHello ==
    [][(IsCall /\ call'.op = VaOp)
         => IF call'.en /\ call'.spid \notin Sentinels /\ emit_impl # NULL
            THEN /\ OneMore(emitted, emitted')
                 /\ Last(emitted').log = call'.log
                 /\ Last(emitted').type = call'.type
                 /\ Last(emitted').spid = call'.spid
                 /\ Last(emitted').name = call'.name
                 /\ os_log_decode(Last(emitted').buf) = "hello"
            ELSE emitted' = emitted]_vars

C10_Witness ==
    /\ call.op = VaOp
    /\ call.va # << >>
    /\ Len(emitted) = call.at + 1
    /\ os_log_decode(Last(emitted).buf) = "hello"

====
